---- MODULE Spec2Model ----
(***************************************************************************)
(* The three tutorial notebooks of TopoModelX (HSN, Template, ConvCXN):    *)
(* building the domain, fetching the neighborhood matrices, constructing   *)
(* the stacked classifier, creating the optimizer and running the training *)
(* loop.  Tensors are modelled by their shapes (sequences of dimensions);  *)
(* parameters by the number of optimizer updates each has received.  The   *)
(* read-out aggregation of ConvCXN.forward is also modelled on values.     *)
(***************************************************************************)
EXTENDS Integers, Sequences, FiniteSets, TLC

VARIABLES
    notebook,      \* which notebook runs: "hsn", "template" or "convcxn"
    pc,            \* position in the notebook's cells
    domain,        \* the complex: [nodes, edges, faces], sets of cells
    nbhd,          \* shapes of the neighborhood tensors
    data,          \* shapes of the signals and of the label tensor
    lens,          \* lengths of the train / test lists
    n_layers,      \* constructor argument n_layers
    model,         \* the constructed torch.nn.Module
    opt_params,    \* parameters handed to the optimizer
    params,        \* parameter id -> number of updates applied
    grads,         \* "none" | "zeroed" | "computed"
    num_epochs,    \* args.num_epochs (range(5) for hsn / template)
    epoch_i,       \* loop variable of the epoch loop
    idx,           \* position of the zip iterator (samples consumed)
    y_hat,         \* shape of the last forward output
    epoch_loss,    \* number of losses appended to epoch_loss
    num_samples,
    correct,
    out,           \* printed lines
    stepped,       \* history: samples whose opt.step() ran in this epoch
    epochs_hist,   \* history: values epoch_i has taken
    trace,         \* history: the calls made for the current training sample
    bad,           \* positions of the ill-shaped samples (0: none)
    logits,        \* read-out values: the three per-rank logit matrices
    agg            \* read-out values: the aggregated prediction

vars == <<notebook, pc, domain, nbhd, data, lens, n_layers, model, opt_params,
          params, grads, num_epochs, epoch_i, idx, y_hat, epoch_loss,
          num_samples, correct, out, stepped, epochs_hist, trace, bad,
          logits, agg>>

pipeVars == <<notebook, pc, domain, nbhd, data, lens, n_layers, model,
              opt_params, params, grads, num_epochs, epoch_i, idx, y_hat,
              epoch_loss, num_samples, correct, out, stepped, epochs_hist,
              trace, bad>>

readVars == <<logits, agg>>

-----------------------------------------------------------------------------
(* Bounds of the model *)

MaxLayers == 2
MaxEpochs == 3
MaxTrain == 2
MaxTest == 2
MaxCells == 2

(* Program constants *)

test_interval == 2
HsnEpochs == 5
num_features_0 == 4
num_features_1 == 5
in_ch_2 == 5
num_classes == 2
channels_edge == 4

Notebooks == {"hsn", "template", "convcxn"}

Min(a, b) == IF a <= b THEN a ELSE b

Min3(a, b, c) == Min(a, Min(b, c))

Err == <<-1>>

-----------------------------------------------------------------------------
(* The domains: cells are tuples of node ids; a bare node id is a 1-tuple *)

RECURSIVE SeqToSet(_)
SeqToSet(s) == IF s = <<>> THEN {} ELSE {Head(s)} \cup SeqToSet(Tail(s))

hsn_cells == << <<1, 2>>, <<1, 3>> >>

template_cells == << <<1, 2>>, <<1, 3>>, <<2, 3, 4>>, <<2, 4, 5>> >>

convcxn_cells ==
    << <<1, 2>>, <<1, 3>>, <<2, 4>>, <<3, 4>>, <<4, 5>>, <<1, 6>>,
       <<1>>, <<2>>, <<3>>, <<4>>, <<5>>, <<6>>,
       <<1, 2, 3, 4>> >>

EmptyDomain == [nodes |-> {}, edges |-> {}, faces |-> {}]

(* SimplicialComplex: every non-empty subset of a simplex is a simplex *)
AddSimplex(d, cell) ==
    LET sub == SUBSET SeqToSet(cell) \ {{}}
    IN  [nodes |-> d.nodes \cup {s \in sub : Cardinality(s) = 1},
         edges |-> d.edges \cup {s \in sub : Cardinality(s) = 2},
         faces |-> d.faces \cup {s \in sub : Cardinality(s) = 3}]

RECURSIVE SimplicialComplex(_)
SimplicialComplex(cells) ==
    IF cells = <<>> THEN EmptyDomain
    ELSE AddSimplex(SimplicialComplex(SubSeq(cells, 1, Len(cells) - 1)),
                    cells[Len(cells)])

BoundaryEdgesOmitted(cell) == {}

(* The edges on the boundary of a 2-cell: consecutive nodes, cyclically *)
BoundaryEdges(cell) ==
    {{cell[i], cell[(i % Len(cell)) + 1]} : i \in 1..Len(cell)}

(* CellComplex: a node, an edge with its end points, or a 2-cell with the *)
(* edges of its boundary                                                   *)
AddCell(d, cell) ==
    LET ns == {{v} : v \in SeqToSet(cell)}
    IN  IF Len(cell) = 1 THEN [d EXCEPT !.nodes = @ \cup ns]
        ELSE IF Len(cell) = 2
        THEN [d EXCEPT !.nodes = @ \cup ns, !.edges = @ \cup {SeqToSet(cell)}]
        ELSE [nodes |-> d.nodes \cup ns,
              edges |-> d.edges \cup BoundaryEdges(cell),
              faces |-> d.faces \cup {cell}]

RECURSIVE CellComplex(_)
CellComplex(cells) ==
    IF cells = <<>> THEN EmptyDomain
    ELSE AddCell(CellComplex(SubSeq(cells, 1, Len(cells) - 1)),
                 cells[Len(cells)])

(* shape of domain.incidence_matrix(rank): cells of rank-1 x cells of rank *)
incidence_shape(d, rank) ==
    IF rank = 1 THEN <<Cardinality(d.nodes), Cardinality(d.edges)>>
    ELSE <<Cardinality(d.edges), Cardinality(d.faces)>>

(* shape of domain.adjacency_matrix(rank=0) *)
adjacency_shape(d) == <<Cardinality(d.nodes), Cardinality(d.nodes)>>

Transpose(shape) == <<shape[2], shape[1]>>

-----------------------------------------------------------------------------
(* The layer library: each layer records the channel width it consumes and *)
(* produces per rank                                                       *)

HSNLayer(channels) ==
    [kind |-> "HSNLayer", in |-> (0 :> channels), out |-> (0 :> channels)]

TemplateLayer(in_channels, intermediate_channels, out_channels) ==
    [kind |-> "TemplateLayer", in |-> (2 :> in_channels),
     out |-> (2 :> out_channels)]

ConvCXNLayer(in_channels_0, in_channels_1, in_channels_2) ==
    [kind |-> "ConvCXNLayer",
     in |-> (0 :> in_channels_0) @@ (1 :> in_channels_1),
     out |-> (0 :> in_channels_0) @@ (1 :> in_channels_1)
             @@ (2 :> in_channels_2)]

(* torch.nn.Linear(in_features, out_features) *)
Linear(in_features, out_features) == <<in_features, out_features>>

(* torch.nn.Module.__setattr__ registers a sub-module only when the value  *)
(* assigned is itself a Module; a Python list is stored as a plain         *)
(* attribute                                                               *)
Registered(attrs) == {a.name : a \in {b \in attrs : b.kind = "Module"}}

NoModel == [cls |-> "none", layers |-> <<>>, linears |-> <<>>, modules |-> {}]

HSN_init(channels, n) ==
    LET layers == [i \in 1..n |-> HSNLayer(channels)]
    IN  [cls |-> "HSN",
         layers |-> layers,
         linears |-> [nm \in {"linear"} |-> Linear(channels, 1)],
         modules |-> Registered({[name |-> "linear", kind |-> "Module"],
                                 [name |-> "layers", kind |-> "list"]})]

TemplateNN_init_mixed(channels_face, ch_edge, n) ==
    LET layers == [i \in 1..n |->
                     TemplateLayer(channels_face, ch_edge, ch_edge)]
    IN  [cls |-> "TemplateNN",
         layers |-> layers,
         linears |-> [nm \in {"linear"} |-> Linear(channels_face, 1)],
         modules |-> Registered({[name |-> "layers", kind |-> "list"],
                                 [name |-> "linear", kind |-> "Module"]})]

TemplateNN_init(channels_face, ch_edge, n) ==
    LET layers == [i \in 1..n |->
                     TemplateLayer(channels_face, ch_edge, channels_face)]
    IN  [cls |-> "TemplateNN",
         layers |-> layers,
         linears |-> [nm \in {"linear"} |-> Linear(channels_face, 1)],
         modules |-> Registered({[name |-> "layers", kind |-> "list"],
                                 [name |-> "linear", kind |-> "Module"]})]

ConvCXN_init(in_ch_0, in_ch_1, ch_2, n_classes, n) ==
    LET layers == [i \in 1..n |-> ConvCXNLayer(in_ch_0, in_ch_1, ch_2)]
    IN  [cls |-> "ConvCXN",
         layers |-> layers,
         linears |-> [nm \in {"lin_0", "lin_1", "lin_2"} |->
                        IF nm = "lin_0" THEN Linear(in_ch_0, n_classes)
                        ELSE IF nm = "lin_1" THEN Linear(in_ch_1, n_classes)
                        ELSE Linear(ch_2, n_classes)],
         modules |-> Registered({[name |-> "layers", kind |-> "list"],
                                 [name |-> "lin_0", kind |-> "Module"],
                                 [name |-> "lin_1", kind |-> "Module"],
                                 [name |-> "lin_2", kind |-> "Module"]})]

(* Parameter ids: <<owner, 0>> for a read-out, <<"layers", i>> for layer i *)
LayerParams(m) == {<<"layers", i>> : i \in 1..Len(m.layers)}

ReadoutParams(m) == {<<nm, 0>> : nm \in DOMAIN m.linears}

AllParams(m) == LayerParams(m) \cup ReadoutParams(m)

(* model.parameters(): the parameters of the registered sub-modules *)
parameters(m) == {<<nm, 0>> : nm \in m.modules}

(* Consecutive layers compose: layer i produces, for every rank layer i+1 *)
(* consumes, the width layer i+1 expects                                   *)
WidthsMatch(layers) ==
    \A i \in 1..(Len(layers) - 1) :
        \A r \in DOMAIN layers[i + 1].in :
            /\ r \in DOMAIN layers[i].out
            /\ layers[i].out[r] = layers[i + 1].in[r]

-----------------------------------------------------------------------------
(* Forward, on shapes.  Err is the shape of a call that raised. *)

Linear_forward(lin, x) ==
    IF x # Err /\ Len(x) >= 1 /\ x[Len(x)] = lin[1]
    THEN [x EXCEPT ![Len(x)] = lin[2]]
    ELSE Err

HSNLayer_forward(layer, x_0, incidence_1, adjacency_0) ==
    IF /\ Len(x_0) = 2 /\ Len(incidence_1) = 2 /\ Len(adjacency_0) = 2
       /\ x_0[2] = layer.in[0]
       /\ incidence_1[1] = x_0[1]
       /\ adjacency_0 = <<x_0[1], x_0[1]>>
    THEN <<x_0[1], layer.out[0]>>
    ELSE Err

TemplateLayer_forward(layer, x_2, incidence_2) ==
    IF /\ Len(x_2) = 2 /\ Len(incidence_2) = 2
       /\ x_2[2] = layer.in[2]
       /\ incidence_2[2] = x_2[1]
    THEN <<x_2[1], layer.out[2]>>
    ELSE Err

(* returns <<x_0, x_1, x_2>> *)
ConvCXNLayer_forward(layer, x_0, x_1, neighborhood_0_to_0, neighborhood_1_to_2) ==
    IF /\ Len(x_0) = 2 /\ Len(x_1) = 2
       /\ Len(neighborhood_0_to_0) = 2 /\ Len(neighborhood_1_to_2) = 2
       /\ x_0[2] = layer.in[0]
       /\ x_1[2] = layer.in[1]
       /\ neighborhood_0_to_0 = <<x_0[1], x_0[1]>>
       /\ neighborhood_1_to_2[2] = x_1[1]
    THEN << <<x_0[1], layer.out[0]>>, <<x_1[1], layer.out[1]>>,
            <<neighborhood_1_to_2[1], layer.out[2]>> >>
    ELSE <<Err, Err, Err>>

RECURSIVE HSN_layers(_, _, _, _)
HSN_layers(layers, x_0, incidence_1, adjacency_0) ==
    IF layers = <<>> THEN x_0
    ELSE HSN_layers(Tail(layers),
                    HSNLayer_forward(Head(layers), x_0, incidence_1, adjacency_0),
                    incidence_1, adjacency_0)

HSN_forward_no_readout(m, x_0, incidence_1, adjacency_0) ==
    HSN_layers(m.layers, x_0, incidence_1, adjacency_0)

HSN_forward(m, x_0, incidence_1, adjacency_0) ==
    Linear_forward(m.linears["linear"],
                   HSN_layers(m.layers, x_0, incidence_1, adjacency_0))

RECURSIVE TemplateNN_layers(_, _, _)
TemplateNN_layers(layers, x_2, incidence_2) ==
    IF layers = <<>> THEN x_2
    ELSE TemplateNN_layers(Tail(layers),
                           TemplateLayer_forward(Head(layers), x_2, incidence_2),
                           incidence_2)

TemplateNN_forward(m, x_2, incidence_2) ==
    Linear_forward(m.linears["linear"],
                   TemplateNN_layers(m.layers, x_2, incidence_2))

(* torch.mean(x, dim=0) and + on shapes *)
mean_dim0_shape(x) == IF x = Err \/ Len(x) < 1 THEN Err ELSE Tail(x)

add_shape(a, b) == IF a # Err /\ a = b THEN a ELSE Err

(* xs = <<x_0, x_1, x_2>>; x_2 is unbound until a layer has run *)
RECURSIVE ConvCXN_layers(_, _, _, _)
ConvCXN_layers(layers, xs, neighborhood_0_to_0, neighborhood_1_to_2) ==
    IF layers = <<>> THEN xs
    ELSE ConvCXN_layers(Tail(layers),
                        ConvCXNLayer_forward(Head(layers), xs[1], xs[2],
                                             neighborhood_0_to_0,
                                             neighborhood_1_to_2),
                        neighborhood_0_to_0, neighborhood_1_to_2)

ConvCXN_forward(m, x_0, x_1, neighborhood_0_to_0, neighborhood_1_to_2) ==
    LET xs == ConvCXN_layers(m.layers, <<x_0, x_1, Err>>,
                             neighborhood_0_to_0, neighborhood_1_to_2)
        l_0 == Linear_forward(m.linears["lin_0"], xs[1])
        l_1 == Linear_forward(m.linears["lin_1"], xs[2])
        l_2 == Linear_forward(m.linears["lin_2"], xs[3])
    IN  add_shape(add_shape(mean_dim0_shape(l_2), mean_dim0_shape(l_1)),
                  mean_dim0_shape(l_0))

-----------------------------------------------------------------------------
(* The read-out aggregation on values: a matrix is a sequence of rows, a   *)
(* mean is the exact rational <<numerator, denominator>>                   *)

Vals == {-1, 2}

Matrices(n) == [1..n -> [1..num_classes -> Vals]]

RECURSIVE ColSum(_, _)
ColSum(X, j) == IF X = <<>> THEN 0 ELSE Head(X)[j] + ColSum(Tail(X), j)

RatAdd(a, b) == <<a[1] * b[2] + b[1] * a[2], a[2] * b[2]>>

RatEq(a, b) == a[1] * b[2] = b[1] * a[2]

(* mean over all the elements, as torch.mean(x) without dim would give *)
torch_mean_all(X) ==
    [j \in 1..Len(X[1]) |->
        <<ColSum(X, 1) + ColSum(X, 2), Len(X) * Len(X[1])>>]

(* torch.mean(x, dim=0): one mean per column *)
torch_mean_dim0(X) == [j \in 1..Len(X[1]) |-> <<ColSum(X, j), Len(X)>>]

(* torch.mean(x_2, dim=0) + torch.mean(x_1, dim=0) + torch.mean(x_0, dim=0) *)
ConvCXN_aggregate(x_0, x_1, x_2) ==
    LET m_0 == torch_mean_dim0(x_0)
        m_1 == torch_mean_dim0(x_1)
        m_2 == torch_mean_dim0(x_2)
    IN  [j \in 1..Len(m_2) |-> RatAdd(RatAdd(m_2[j], m_1[j]), m_0[j])]

-----------------------------------------------------------------------------
(* The notebooks' cells *)

IsConv == notebook = "convcxn"

(* range(5) for hsn / template, range(1, args.num_epochs + 1) for convcxn *)
RangeFirst == IF IsConv THEN 1 ELSE 0

RangeStopShort == IF IsConv THEN num_epochs ELSE HsnEpochs - 1

RangeStop == IF IsConv THEN num_epochs + 1 ELSE HsnEpochs

zip_len_short(a, b, c) == Min3(a, b, c) - 1

(* zip stops at the shortest of its arguments *)
zip_len(a, b, c) == Min3(a, b, c)

TrainLen == zip_len(lens.x_0_train, lens.x_1_train, lens.labels_train)

TestLen == zip_len(lens.x_0_test, lens.x_1_test, lens.labels_test)

TestDueZeroBased(e) == (e - 1) % test_interval = 0

(* if epoch_i % test_interval == 0 *)
TestDue(e) == e % test_interval = 0

(* opt.step(): updates the parameters of the optimizer's group *)
opt_step(ps, group) ==
    [p \in DOMAIN ps |-> IF p \in group THEN ps[p] + 1 ELSE ps[p]]

EqualLens ==
    {[x_0_train |-> n, x_1_train |-> n, labels_train |-> n,
      x_0_test |-> m, x_1_test |-> m, labels_test |-> m] :
        n \in 1..MaxTrain, m \in 1..MaxTest}

AnyLens ==
    [x_0_train : 0..MaxTrain, x_1_train : 0..MaxTrain,
     labels_train : 0..MaxTrain,
     x_0_test : 0..MaxTest, x_1_test : 0..MaxTest, labels_test : 0..MaxTest]

SingleSample ==
    [x_0_train |-> 1, x_1_train |-> 1, labels_train |-> 1,
     x_0_test |-> 0, x_1_test |-> 0, labels_test |-> 0]

NoBad == [train |-> 0, test |-> 0]

InitCommon ==
    /\ pc = "domain"
    /\ domain = EmptyDomain
    /\ nbhd = [incidence |-> <<>>, adjacency |-> <<>>]
    /\ data = [x_0 |-> <<>>, x_1 |-> <<>>, labels |-> <<>>]
    /\ n_layers \in 1..MaxLayers
    /\ model = NoModel
    /\ opt_params = {}
    /\ params = <<>>
    /\ grads = "none"
    /\ epoch_i = RangeFirst - 1
    /\ idx = 0
    /\ y_hat = <<>>
    /\ epoch_loss = 0
    /\ num_samples = 0
    /\ correct = 0
    /\ out = <<>>
    /\ stepped = <<>>
    /\ epochs_hist = <<>>
    /\ trace = <<>>
    /\ logits = <<>>
    /\ agg = <<>>

(* The notebooks as written: every list of a data set has the same length *)
Init ==
    /\ notebook \in Notebooks
    /\ IF IsConv
       THEN num_epochs \in 1..MaxEpochs /\ lens \in EqualLens
       ELSE num_epochs = HsnEpochs /\ lens = SingleSample
    /\ bad = NoBad
    /\ InitCommon

(* The ConvCXN loops handed lists of any lengths *)
InitAnyLens ==
    /\ notebook = "convcxn"
    /\ num_epochs \in 1..MaxEpochs
    /\ lens \in AnyLens
    /\ bad = NoBad
    /\ InitCommon

(* The ConvCXN loops on data sets in which one sample of the training set  *)
(* or of the test set may have a signal of the wrong width                 *)
InitBadSample ==
    /\ notebook = "convcxn"
    /\ num_epochs \in 1..MaxEpochs
    /\ lens \in EqualLens
    /\ bad \in [train : 0..MaxTrain, test : 0..MaxTest]
    /\ bad.train <= lens.x_0_train
    /\ bad.test <= lens.x_0_test
    /\ InitCommon

BuildDomain ==
    /\ pc = "domain"
    /\ domain' = IF notebook = "hsn" THEN SimplicialComplex(hsn_cells)
                 ELSE IF notebook = "template"
                 THEN SimplicialComplex(template_cells)
                 ELSE CellComplex(convcxn_cells)
    /\ pc' = "neighborhoods"
    /\ UNCHANGED <<notebook, nbhd, data, lens, n_layers, model, opt_params,
                   params, grads, num_epochs, epoch_i, idx, y_hat, epoch_loss,
                   num_samples, correct, out, stepped, epochs_hist, trace, bad, 
                   readVars>>

GetNeighborhoods ==
    /\ pc = "neighborhoods"
    /\ nbhd' = IF notebook = "hsn"
               THEN [incidence |-> incidence_shape(domain, 1),
                     adjacency |-> adjacency_shape(domain)]
               ELSE IF notebook = "template"
               THEN [incidence |-> incidence_shape(domain, 2),
                     adjacency |-> <<>>]
               ELSE [incidence |-> Transpose(incidence_shape(domain, 2)),
                     adjacency |-> adjacency_shape(domain)]
    /\ pc' = "data"
    /\ UNCHANGED <<notebook, domain, data, lens, n_layers, model, opt_params,
                   params, grads, num_epochs, epoch_i, idx, y_hat, epoch_loss,
                   num_samples, correct, out, stepped, epochs_hist, trace, bad, 
                   readVars>>

CreateData ==
    /\ pc = "data"
    /\ data' = IF notebook = "hsn"
               THEN [x_0 |-> <<3, 2>>, x_1 |-> <<>>, labels |-> <<3, 1>>]
               ELSE IF notebook = "template"
               THEN [x_0 |-> <<2, 2>>, x_1 |-> <<>>, labels |-> <<2, 1>>]
               ELSE [x_0 |-> <<Cardinality(domain.nodes), num_features_0>>,
                     x_1 |-> <<Cardinality(domain.edges), num_features_1>>,
                     labels |-> <<>>]
    /\ pc' = "construct"
    /\ UNCHANGED <<notebook, domain, nbhd, lens, n_layers, model, opt_params,
                   params, grads, num_epochs, epoch_i, idx, y_hat, epoch_loss,
                   num_samples, correct, out, stepped, epochs_hist, trace, bad, 
                   readVars>>

Construct ==
    /\ pc = "construct"
    /\ model' = IF notebook = "hsn" THEN HSN_init(data.x_0[2], n_layers)
                ELSE IF notebook = "template"
                THEN TemplateNN_init(data.x_0[2], channels_edge, n_layers)
                ELSE ConvCXN_init(num_features_0, num_features_1, in_ch_2,
                                  num_classes, n_layers)
    /\ params' = [p \in AllParams(model') |-> 0]
    /\ pc' = "optimizer"
    /\ UNCHANGED <<notebook, domain, nbhd, data, lens, n_layers, opt_params,
                   grads, num_epochs, epoch_i, idx, y_hat, epoch_loss,
                   num_samples, correct, out, stepped, epochs_hist, trace, bad, 
                   readVars>>

MakeOptimizer ==
    /\ pc = "optimizer"
    /\ opt_params' = parameters(model)
    /\ pc' = "epoch_head"
    /\ UNCHANGED <<notebook, domain, nbhd, data, lens, n_layers, model,
                   params, grads, num_epochs, epoch_i, idx, y_hat, epoch_loss,
                   num_samples, correct, out, stepped, epochs_hist, trace, bad, 
                   readVars>>

-----------------------------------------------------------------------------
(* The training loops *)

(* x_0 of the current sample: an ill-shaped sample has one feature more *)
Sample_x_0 ==
    IF \/ (pc = "forward" /\ idx = bad.train)
       \/ (pc = "eval_forward" /\ idx = bad.test)
    THEN <<data.x_0[1], data.x_0[2] + 1>>
    ELSE data.x_0

(* model(...) on the current sample *)
Forward_shape ==
    IF notebook = "hsn"
    THEN HSN_forward(model, data.x_0, nbhd.incidence, nbhd.adjacency)
    ELSE IF notebook = "template"
    THEN TemplateNN_forward(model, data.x_0, nbhd.incidence)
    ELSE ConvCXN_forward(model, Sample_x_0, data.x_1, nbhd.adjacency,
                         nbhd.incidence)

(* for epoch in range(...): the next epoch starts with fresh counters, or *)
(* the loop is over                                                        *)
EpochHead ==
    /\ pc = "epoch_head"
    /\ IF epoch_i + 1 < RangeStop
       THEN /\ epoch_i' = epoch_i + 1
            /\ epochs_hist' = Append(epochs_hist, epoch_i + 1)
            /\ stepped' = <<>>
            /\ trace' = <<>>
            /\ IF IsConv
               THEN /\ epoch_loss' = 0
                    /\ num_samples' = 0
                    /\ correct' = 0
                    /\ idx' = 0
                    /\ pc' = "train_zip"
               ELSE /\ idx' = 1
                    /\ pc' = "zero_grad"
                    /\ UNCHANGED <<epoch_loss, num_samples, correct>>
       ELSE /\ pc' = "Done"
            /\ UNCHANGED <<epoch_i, epochs_hist, stepped, epoch_loss,
                           num_samples, correct, idx, trace>>
    /\ UNCHANGED <<notebook, domain, nbhd, data, lens, n_layers, model,
                   opt_params, params, grads, num_epochs, y_hat, out, bad, 
                   readVars>>

(* for x_0, x_1, y in zip(x_0_train, x_1_train, labels_train) *)
TrainZip ==
    /\ pc = "train_zip"
    /\ IF idx < TrainLen
       THEN idx' = idx + 1 /\ pc' = "zero_grad" /\ trace' = <<>>
       ELSE idx' = idx /\ pc' = "summary" /\ trace' = trace
    /\ UNCHANGED <<notebook, domain, nbhd, data, lens, n_layers, model,
                   opt_params, params, grads, num_epochs, epoch_i, y_hat,
                   epoch_loss, num_samples, correct, out, stepped,
                   epochs_hist, bad, 
                   readVars>>

ZeroGrad ==
    /\ pc = "zero_grad"
    /\ grads' = "zeroed"
    /\ trace' = Append(trace, <<"zero_grad", idx>>)
    /\ pc' = "forward"
    /\ UNCHANGED <<notebook, domain, nbhd, data, lens, n_layers, model,
                   opt_params, params, num_epochs, epoch_i, idx, y_hat,
                   epoch_loss, num_samples, correct, out, stepped,
                   epochs_hist, bad, 
                   readVars>>

ForwardSkipsFailure ==
    /\ pc = "forward"
    /\ y_hat' = Forward_shape
    /\ trace' = Append(trace, <<"forward", idx>>)
    /\ pc' = IF y_hat' = Err THEN "train_zip" ELSE "loss"
    /\ UNCHANGED <<notebook, domain, nbhd, data, lens, n_layers, model,
                   opt_params, params, grads, num_epochs, epoch_i, idx,
                   epoch_loss, num_samples, correct, out, stepped,
                   epochs_hist, bad, readVars>>

Forward ==
    /\ pc = "forward"
    /\ y_hat' = Forward_shape
    /\ trace' = Append(trace, <<"forward", idx>>)
    /\ pc' = IF y_hat' = Err THEN "RuntimeError" ELSE "loss"
    /\ UNCHANGED <<notebook, domain, nbhd, data, lens, n_layers, model,
                   opt_params, params, grads, num_epochs, epoch_i, idx,
                   epoch_loss, num_samples, correct, out, stepped,
                   epochs_hist, bad, 
                   readVars>>

(* the loss; in ConvCXN also correct += ..., num_samples += 1 *)
Loss ==
    /\ pc = "loss"
    /\ trace' = Append(trace, <<"loss", idx>>)
    /\ IF IsConv
       THEN \E c \in {0, 1} :
                /\ correct' = correct + c
                /\ num_samples' = num_samples + 1
                /\ pc' = IF Len(y_hat) = 1 THEN "backward" ELSE "RuntimeError"
       ELSE /\ pc' = IF y_hat = data.labels THEN "backward" ELSE "ValueError"
            /\ UNCHANGED <<correct, num_samples>>
    /\ UNCHANGED <<notebook, domain, nbhd, data, lens, n_layers, model,
                   opt_params, params, grads, num_epochs, epoch_i, idx, y_hat,
                   epoch_loss, out, stepped, epochs_hist, bad, 
                   readVars>>

BackwardOmitted ==
    /\ pc = "backward"
    /\ pc' = "step"
    /\ UNCHANGED <<notebook, domain, nbhd, data, lens, n_layers, model,
                   opt_params, params, grads, num_epochs, epoch_i, idx, y_hat,
                   epoch_loss, num_samples, correct, out, stepped,
                   epochs_hist, trace, bad, readVars>>

Backward ==
    /\ pc = "backward"
    /\ grads' = "computed"
    /\ trace' = Append(trace, <<"backward", idx>>)
    /\ pc' = "step"
    /\ UNCHANGED <<notebook, domain, nbhd, data, lens, n_layers, model,
                   opt_params, params, num_epochs, epoch_i, idx, y_hat,
                   epoch_loss, num_samples, correct, out, stepped,
                   epochs_hist, bad, 
                   readVars>>

OptStep ==
    /\ pc = "step"
    /\ params' = opt_step(params, opt_params)
    /\ stepped' = Append(stepped, idx)
    /\ trace' = Append(trace, <<"step", idx>>)
    /\ pc' = IF IsConv THEN "append" ELSE "epoch_head"
    /\ UNCHANGED <<notebook, domain, nbhd, data, lens, n_layers, model,
                   opt_params, grads, num_epochs, epoch_i, idx, y_hat,
                   epoch_loss, num_samples, correct, out, epochs_hist,
                   bad, 
                   readVars>>

AppendLoss ==
    /\ pc = "append"
    /\ epoch_loss' = epoch_loss + 1
    /\ pc' = "train_zip"
    /\ UNCHANGED <<notebook, domain, nbhd, data, lens, n_layers, model,
                   opt_params, params, grads, num_epochs, epoch_i, idx, y_hat,
                   num_samples, correct, out, stepped, epochs_hist, trace, bad, 
                   readVars>>

(* train_acc = correct / num_samples; print; if epoch_i % test_interval == 0 *)
Summary ==
    /\ pc = "summary"
    /\ IF num_samples = 0
       THEN pc' = "ZeroDivisionError" /\ out' = out
       ELSE /\ out' = Append(out, <<"Epoch", epoch_i>>)
            /\ pc' = IF TestDue(epoch_i) THEN "eval_reset" ELSE "epoch_head"
    /\ UNCHANGED <<notebook, domain, nbhd, data, lens, n_layers, model,
                   opt_params, params, grads, num_epochs, epoch_i, idx, y_hat,
                   epoch_loss, num_samples, correct, stepped, epochs_hist,
                   trace, bad, 
                   readVars>>

EvalResetForgotten ==
    /\ pc = "eval_reset"
    /\ idx' = 0
    /\ pc' = "eval_zip"
    /\ UNCHANGED <<notebook, domain, nbhd, data, lens, n_layers, model,
                   opt_params, params, grads, num_epochs, epoch_i, y_hat,
                   epoch_loss, num_samples, correct, out, stepped,
                   epochs_hist, trace, bad, readVars>>

(* with torch.no_grad(): num_samples = 0; correct = 0 *)
EvalReset ==
    /\ pc = "eval_reset"
    /\ num_samples' = 0
    /\ correct' = 0
    /\ idx' = 0
    /\ pc' = "eval_zip"
    /\ UNCHANGED <<notebook, domain, nbhd, data, lens, n_layers, model,
                   opt_params, params, grads, num_epochs, epoch_i, y_hat,
                   epoch_loss, out, stepped, epochs_hist, trace, bad, 
                   readVars>>

(* for x_0, x_1, y in zip(x_0_test, x_1_test, labels_test) *)
EvalZip ==
    /\ pc = "eval_zip"
    /\ IF idx < TestLen
       THEN idx' = idx + 1 /\ pc' = "eval_forward"
       ELSE idx' = idx /\ pc' = "test_print"
    /\ UNCHANGED <<notebook, domain, nbhd, data, lens, n_layers, model,
                   opt_params, params, grads, num_epochs, epoch_i, y_hat,
                   epoch_loss, num_samples, correct, out, stepped,
                   epochs_hist, trace, bad, 
                   readVars>>

EvalForwardStepping ==
    /\ pc = "eval_forward"
    /\ y_hat' = Forward_shape
    /\ params' = opt_step(params, opt_params)
    /\ pc' = IF y_hat' = Err THEN "RuntimeError" ELSE "eval_count"
    /\ UNCHANGED <<notebook, domain, nbhd, data, lens, n_layers, model,
                   opt_params, grads, num_epochs, epoch_i, idx,
                   epoch_loss, num_samples, correct, out, stepped,
                   epochs_hist, trace, bad, 
                   readVars>>

(* y_hat = model(x_0, x_1, adjacency_0, incidence_2_t) under no_grad *)
EvalForward ==
    /\ pc = "eval_forward"
    /\ y_hat' = Forward_shape
    /\ pc' = IF y_hat' = Err THEN "RuntimeError" ELSE "eval_count"
    /\ UNCHANGED <<notebook, domain, nbhd, data, lens, n_layers, model,
                   opt_params, params, grads, num_epochs, epoch_i, idx,
                   epoch_loss, num_samples, correct, out, stepped,
                   epochs_hist, trace, bad, 
                   readVars>>

EvalCount ==
    /\ pc = "eval_count"
    /\ \E c \in {0, 1} : correct' = correct + c
    /\ num_samples' = num_samples + 1
    /\ pc' = "eval_zip"
    /\ UNCHANGED <<notebook, domain, nbhd, data, lens, n_layers, model,
                   opt_params, params, grads, num_epochs, epoch_i, idx, y_hat,
                   epoch_loss, out, stepped, epochs_hist, trace, bad, 
                   readVars>>

(* test_acc = correct / num_samples; print *)
TestPrint ==
    /\ pc = "test_print"
    /\ IF num_samples = 0
       THEN pc' = "ZeroDivisionError" /\ out' = out
       ELSE out' = Append(out, <<"Test_acc", epoch_i>>) /\ pc' = "epoch_head"
    /\ UNCHANGED <<notebook, domain, nbhd, data, lens, n_layers, model,
                   opt_params, params, grads, num_epochs, epoch_i, idx, y_hat,
                   epoch_loss, num_samples, correct, stepped, epochs_hist,
                   trace, bad, 
                   readVars>>

Next ==
    \/ BuildDomain
    \/ GetNeighborhoods
    \/ CreateData
    \/ Construct
    \/ MakeOptimizer
    \/ EpochHead
    \/ TrainZip
    \/ ZeroGrad
    \/ Forward
    \/ Loss
    \/ Backward
    \/ OptStep
    \/ AppendLoss
    \/ Summary
    \/ EvalReset
    \/ EvalZip
    \/ EvalForward
    \/ EvalCount
    \/ TestPrint

Spec == Init /\ [][Next]_vars

(* The notebook is a sequential program: a cell that can run does run *)
FairSpec == Spec /\ WF_vars(Next)

SpecAnyLens == InitAnyLens /\ [][Next]_vars

SpecBadSample == InitBadSample /\ [][Next]_vars

-----------------------------------------------------------------------------
(* ConvCXN.forward's return statement on values *)

InitReadout ==
    /\ notebook = "convcxn"
    /\ pc = "readout"
    /\ domain = EmptyDomain
    /\ nbhd = [incidence |-> <<>>, adjacency |-> <<>>]
    /\ data = [x_0 |-> <<>>, x_1 |-> <<>>, labels |-> <<>>]
    /\ lens = SingleSample
    /\ n_layers = 1
    /\ model = NoModel
    /\ opt_params = {}
    /\ params = <<>>
    /\ grads = "none"
    /\ num_epochs = 1
    /\ epoch_i = 0
    /\ idx = 0
    /\ y_hat = <<>>
    /\ epoch_loss = 0
    /\ num_samples = 0
    /\ correct = 0
    /\ out = <<>>
    /\ stepped = <<>>
    /\ epochs_hist = <<>>
    /\ trace = <<>>
    /\ bad = NoBad
    /\ \E n0 \in 1..MaxCells, n1 \in 1..MaxCells, n2 \in 1..MaxCells :
           logits \in Matrices(n0) \X Matrices(n1) \X Matrices(n2)
    /\ agg = <<>>

Aggregate ==
    /\ pc = "readout"
    /\ agg' = ConvCXN_aggregate(logits[1], logits[2], logits[3])
    /\ pc' = "returned"
    /\ UNCHANGED <<notebook, domain, nbhd, data, lens, n_layers, model,
                   opt_params, params, grads, num_epochs, epoch_i, idx, y_hat,
                   epoch_loss, num_samples, correct, out, stepped,
                   epochs_hist, trace, bad,
                   logits>>

NextReadout == Aggregate

SpecReadout == InitReadout /\ [][NextReadout]_vars

-----------------------------------------------------------------------------
(* Properties *)

SetupPcs == {"domain", "neighborhoods", "data", "construct", "optimizer"}

EvalPcs == {"eval_reset", "eval_zip", "eval_forward", "eval_count",
            "test_print"}

TrainBodyPcs == {"zero_grad", "forward", "loss", "backward", "step", "append"}

ErrorPcs == {"RuntimeError", "ValueError", "ZeroDivisionError"}

Iota(n) == [k \in 1..n |-> k]

(* C1: once the optimizer exists, the parameters handed to it contain the *)
(* parameters of every message-passing layer and of every linear read-out. *)
C1_JointTraining ==
    pc \notin SetupPcs =>
        /\ LayerParams(model) \subseteq opt_params
        /\ ReadoutParams(model) \subseteq opt_params

(* C2: when an epoch's samples are exhausted, opt.step() has run exactly   *)
(* once for each training sample, in order: ConvCXN once per element of    *)
(* the training set, HSN / Template once per epoch; so at the end every    *)
(* optimized parameter has received epochs x samples updates.              *)
C2_StepsPerEpoch ==
    /\ (IsConv /\ pc = "summary") => stepped = Iota(lens.x_0_train)
    /\ (IsConv /\ pc \in TrainBodyPcs \cup {"train_zip"}) =>
           Len(stepped) <= lens.x_0_train
    /\ (~IsConv /\ pc = "epoch_head" /\ epochs_hist # <<>>) => stepped = <<1>>
    /\ (IsConv /\ pc = "Done") =>
           \A p \in opt_params : params[p] = num_epochs * lens.x_0_train
    /\ (~IsConv /\ pc = "Done") =>
           \A p \in opt_params : params[p] = Len(epochs_hist)

C2_Witness ==
    /\ IsConv
    /\ pc = "summary"
    /\ epoch_i = 2
    /\ lens.x_0_train = 2
    /\ stepped = <<1, 2>>

RECURSIVE ExpectedOut(_)
ExpectedOut(n) ==
    IF n = 0 THEN <<>>
    ELSE ExpectedOut(n - 1) \o << <<"Epoch", n>> >>
         \o (IF n % 2 = 0 THEN << <<"Test_acc", n>> >> ELSE <<>>)

(* C3: evaluation is entered after a training epoch iff epoch_i mod 2 = 0 *)
(* (epochs counted from 1): the run prints one Epoch line per epoch and a  *)
(* Test_acc line after exactly the even epochs; for num_epochs = 3 that is *)
(* Epoch 1, Epoch 2, Test_acc, Epoch 3.                                    *)
C3_EvalInterval ==
    IsConv =>
        /\ pc \in EvalPcs => epoch_i % 2 = 0
        /\ (pc = "epoch_head" /\ epoch_i >= 1) => out = ExpectedOut(epoch_i)
        /\ pc = "Done" => out = ExpectedOut(num_epochs)
        /\ (pc = "Done" /\ num_epochs = 3) =>
               out = << <<"Epoch", 1>>, <<"Epoch", 2>>, <<"Test_acc", 2>>,
                        <<"Epoch", 3>> >>

C3_Witness == IsConv /\ pc = "Done" /\ num_epochs = 3 /\ Len(out) = 4

(* C4: no step taken while evaluating changes a parameter value or the    *)
(* gradient state: the parameters after an evaluation pass are those       *)
(* before it.                                                              *)
C4_EvalFrame ==
    [][(pc \in EvalPcs) => (params' = params /\ grads' = grads)]_vars

C4_Witness ==
    /\ pc = "test_print"
    /\ num_samples = 2
    /\ \E p \in DOMAIN params : params[p] > 0

(* C5: the loop ends in Done, and when it does exactly the epochs          *)
(* first, first+1, ..., num_epochs of them, have run, each once; Done is   *)
(* never left, and an epoch's summary (with its test line on an            *)
(* evaluation epoch) is followed by the next epoch or by Done.             *)
C5_Terminates ==
    /\ <>(pc = "Done")
    /\ [](pc = "Done" =>
              epochs_hist = [k \in 1..num_epochs |-> RangeFirst + k - 1])
    /\ [](Len(epochs_hist) <= num_epochs)
    /\ [][pc = "Done" => pc' = "Done"]_vars
    /\ [][(pc = "epoch_head" /\ Len(epochs_hist) = num_epochs)
              => pc' = "Done"]_vars

C5_Witness == IsConv /\ pc = "Done" /\ num_epochs = 3 /\ Len(epochs_hist) = 3

TrainMismatch ==
    ~(lens.x_0_train = lens.x_1_train /\ lens.x_1_train = lens.labels_train)

TestMismatch ==
    ~(lens.x_0_test = lens.x_1_test /\ lens.x_1_test = lens.labels_test)

(* C7: with lists of different lengths the training (evaluation) loop     *)
(* raises before it processes any sample of a truncated subset.            *)
C7_MismatchFatal ==
    /\ TrainMismatch => pc \notin TrainBodyPcs
    /\ TestMismatch => pc \notin {"eval_forward", "eval_count"}

(* C8, as stated: the ConvCXN complex has 6 edges, incidence_2_t has shape *)
(* (1,6) and adjacency_0 has shape (6,6).                                  *)
C8_SixEdges ==
    (IsConv /\ pc \notin {"domain", "neighborhoods"}) =>
        /\ Cardinality(domain.edges) = 6
        /\ nbhd.incidence = <<1, 6>>
        /\ nbhd.adjacency = <<6, 6>>

(* C8, amended: the ConvCXN complex has 6 nodes, 8 edges (the 6 listed and *)
(* the 2 the face's boundary adds) and 1 face, incidence_2_t has shape     *)
(* (1,8) and adjacency_0 has shape (6,6).                                  *)
C8_EightEdges ==
    (IsConv /\ pc \notin {"domain", "neighborhoods"}) =>
        /\ Cardinality(domain.nodes) = 6
        /\ Cardinality(domain.edges) = 8
        /\ Cardinality(domain.faces) = 1
        /\ nbhd.incidence = <<1, 8>>
        /\ nbhd.adjacency = <<6, 6>>

C8_Witness ==
    /\ IsConv
    /\ pc = "data"
    /\ {2, 3} \in domain.edges
    /\ {1, 4} \in domain.edges

(* C9: the HSN complex has 3 nodes and 2 edges, incidence_1 has shape      *)
(* (3,2), adjacency_0 has shape (3,3); with 2 layers of width 2 no step    *)
(* raises, every epoch's output has shape (3,1), the shape of the labels,  *)
(* and 5 epochs have run when the loop is done.                            *)
C9_ScenarioHSN ==
    notebook = "hsn" =>
        /\ pc # "domain" =>
               Cardinality(domain.nodes) = 3 /\ Cardinality(domain.edges) = 2
        /\ pc \notin {"domain", "neighborhoods"} =>
               nbhd.incidence = <<3, 2>> /\ nbhd.adjacency = <<3, 3>>
        /\ (n_layers = 2 /\ pc \notin SetupPcs) =>
               /\ model.layers = <<HSNLayer(2), HSNLayer(2)>>
               /\ pc \notin ErrorPcs
               /\ pc \in {"loss", "backward", "step"} =>
                      y_hat = <<3, 1>> /\ y_hat = data.labels
               /\ pc = "Done" =>
                      epochs_hist = <<0, 1, 2, 3, 4>> /\ y_hat = <<3, 1>>

C9_Witness ==
    /\ notebook = "hsn"
    /\ n_layers = 2
    /\ pc = "Done"
    /\ y_hat = <<3, 1>>

(* the total of column j of X, row by row from the last *)
ColTotal(X, j) ==
    LET tot[i \in 0..Len(X)] == IF i = 0 THEN 0 ELSE tot[i - 1] + X[i][j]
    IN  tot[Len(X)]

(* C10: the value returned has shape (2,), and its entry j is              *)
(* sum_j(x_0)/n0 + sum_j(x_1)/n1 + sum_j(x_2)/n2, the sum of the three     *)
(* per-rank means over the cells.                                          *)
C10_ReadoutAggregation ==
    pc = "returned" =>
        LET n0 == Len(logits[1])
            n1 == Len(logits[2])
            n2 == Len(logits[3])
        IN  /\ DOMAIN agg = 1..2
            /\ \A j \in 1..2 :
                   RatEq(agg[j],
                         <<ColTotal(logits[1], j) * n1 * n2
                           + ColTotal(logits[2], j) * n0 * n2
                           + ColTotal(logits[3], j) * n0 * n1,
                           n0 * n1 * n2>>)

C10_Witness ==
    /\ pc = "returned"
    /\ Len(logits[1]) = 2
    /\ Len(logits[2]) = 1
    /\ Len(logits[3]) = 2
    /\ logits[1] = << <<-1, 2>>, <<2, 2>> >>
    /\ agg[1][1] # agg[2][1]

SampleOps == <<"zero_grad", "forward", "loss", "backward", "step">>

ExpectedTrace(k) == [i \in 1..5 |-> <<SampleOps[i], k>>]

(* the number of calls already made for the sample when the loop is at p *)
CallsBefore(p) ==
    IF p = "zero_grad" THEN 0
    ELSE IF p = "forward" THEN 1
    ELSE IF p = "loss" THEN 2
    ELSE IF p = "backward" THEN 3
    ELSE IF p = "step" THEN 4
    ELSE 5

(* C11: for each training sample the calls are zero_grad, forward, loss,   *)
(* backward, step, in this order and all for that sample; the samples       *)
(* stepped before it are exactly 1..k-1, in data set order; and parameters *)
(* change only in the step that follows those four calls.                  *)
C11_SampleOrder ==
    /\ [](pc \in TrainBodyPcs =>
            /\ trace = SubSeq(ExpectedTrace(idx), 1, CallsBefore(pc))
            /\ stepped = Iota(IF pc = "append" THEN idx ELSE idx - 1)
            /\ pc \in {"forward", "loss", "backward"} => grads = "zeroed"
            /\ pc \in {"step", "append"} => grads = "computed")
    /\ []((pc \in {"train_zip", "summary"} /\ idx >= 1) =>
            trace = ExpectedTrace(idx) /\ stepped = Iota(idx))
    /\ []((~IsConv /\ pc \in {"epoch_head", "Done"} /\ epochs_hist # <<>>) =>
            trace = ExpectedTrace(1))
    /\ [][(pc \notin SetupPcs /\ params' # params) =>
            /\ pc = "step"
            /\ trace = SubSeq(ExpectedTrace(idx), 1, 4)
            /\ trace' = ExpectedTrace(idx)]_vars

C11_Witness ==
    /\ IsConv
    /\ pc = "append"
    /\ idx = 2
    /\ epoch_i = 2
    /\ trace = ExpectedTrace(2)
    /\ stepped = <<1, 2>>

(* a forward call of the training loop raised / of the evaluation raised *)
TrainForwardFailed == pc = "RuntimeError" /\ Len(trace) = 2

EvalForwardFailed == pc = "RuntimeError" /\ Len(trace) = 5

(* C12: a forward call on an ill-shaped sample raises, and nothing runs    *)
(* after it: the sample is not retried, no later sample or epoch starts    *)
(* and the failing epoch prints no summary, while the optimizer steps of   *)
(* the samples before it stay applied.                                     *)
C12_ForwardFailureAborts ==
    /\ [][pc \notin ErrorPcs]_vars
    /\ [][(pc = "forward" /\ idx = bad.train) => pc' = "RuntimeError"]_vars
    /\ [](TrainForwardFailed =>
            /\ idx = bad.train
            /\ trace = << <<"zero_grad", idx>>, <<"forward", idx>> >>
            /\ epochs_hist = Iota(epoch_i)
            /\ out = ExpectedOut(epoch_i - 1)
            /\ stepped = Iota(idx - 1)
            /\ num_samples = idx - 1
            /\ epoch_loss = idx - 1
            /\ \A p \in opt_params :
                   params[p] = (epoch_i - 1) * lens.x_0_train + idx - 1)
    /\ [](EvalForwardFailed =>
            /\ idx = bad.test
            /\ out = ExpectedOut(epoch_i - 1) \o << <<"Epoch", epoch_i>> >>
            /\ \A p \in opt_params : params[p] = epoch_i * lens.x_0_train)

C12_Witness ==
    /\ TrainForwardFailed
    /\ bad.train = 2
    /\ idx = 2
    /\ stepped = <<1>>
    /\ params[<<"lin_0", 0>>] = 1
    /\ out = <<>>

(* C13: in the ConvCXN loops every sample processed adds exactly one loss *)
(* to epoch_loss and one to num_samples, so when the training samples are  *)
(* exhausted both equal the number of training samples; correct stays      *)
(* within 0..num_samples; num_samples and correct (and, for training,      *)
(* epoch_loss) are zero when an epoch's first sample and when an           *)
(* evaluation's first sample is about to be taken.                         *)
C13_Counters ==
    IsConv =>
        /\ 0 <= correct /\ correct <= num_samples
        /\ pc = "train_zip" => num_samples = idx /\ epoch_loss = idx
        /\ pc \in {"zero_grad", "forward", "loss"} =>
               num_samples = idx - 1 /\ epoch_loss = idx - 1
        /\ pc \in {"backward", "step", "append"} =>
               num_samples = idx /\ epoch_loss = idx - 1
        /\ pc = "summary" =>
               /\ epoch_loss = num_samples
               /\ num_samples = lens.x_0_train
        /\ pc = "eval_zip" => num_samples = idx
        /\ pc \in {"eval_forward", "eval_count"} => num_samples = idx - 1
        /\ (pc \in {"train_zip", "eval_zip"} /\ idx = 0) =>
               num_samples = 0 /\ correct = 0
        /\ pc = "test_print" => num_samples = lens.x_0_test

C13_Witness ==
    /\ IsConv
    /\ pc = "summary"
    /\ epoch_i = 2
    /\ lens.x_0_train = 2
    /\ epoch_loss = 2
    /\ num_samples = 2
    /\ correct = 1

====
